---- MODULE Spec2Model ----
(***************************************************************************)
(* Gomoku (five in a row): the Board, the positional evaluator, the move   *)
(* generator, the alpha-beta search and the turn handling of the Game of   *)
(* src/game_hight_level.py.                                                *)
(*                                                                         *)
(* A board is a record [size, stones, last_move]: stones is the list       *)
(* Board.stones in insertion order, each stone a record [x, y, color];     *)
(* last_move is a stone or None.  Stone.timestamp is never read by the     *)
(* code and is left out.                                                   *)
(***************************************************************************)
EXTENDS Integers, Sequences, FiniteSets, TLC

\* ---------------------------------------------------------------- bounds
\* Side of the board of the bounded model (Board.size; 15 in the program).
N == 5
\* A stone is added by PlaceStone only while the board holds fewer stones
\* than this (a call that fails is always possible).
MaxStones == 2
\* GetMove runs a search only when the stones on the board plus the plies of
\* the search are at most this; on an empty board there is nothing to
\* search and every difficulty is called.
MaxPly == 3

\* The most cells that a scripted position leaves out of its pattern (or
\* plays, on an otherwise empty board); GetMove also runs a search when at
\* most this many cells are empty.
MaxHoles == 3
\* The side of the boards on which check_win is called for each stone.
WinSize == 6

\* The side of the boards of the positions with an open four.
SceneSize == 6

\* The side of the board of the Game.
GameSize == 3

\* The stones that a game in Player vs Player mode is followed for.
MaxPvpStones == 3

\* ------------------------------------------------------------- constants
BOARD_SIZE == 15
WHITE == "WHITE"
BLACK == "BLACK"
Colors == {BLACK, WHITE}
\* Python's None where a Stone is expected (last_move, get_stone_at, the
\* winner's colour) and where a move is expected (best_move).
None == [x |-> -1, y |-> -1, color |-> "None"]
NoColor == "None"
NoMove == <<>>

EASY == "EASY"
MEDIUM == "MEDIUM"
HARD == "HARD"
Difficulty == {EASY, MEDIUM, HARD}

\* float('inf') and float('-inf'): the code only compares them and takes
\* max/min with them; every finite score is a sum of at most
\* 2 * size^2 * 4 weights <= 400000, far inside (-PosInf, PosInf).
PosInf == 2000000000
NegInf == -PosInf

Max(a, b) == IF a >= b THEN a ELSE b
Min(a, b) == IF a <= b THEN a ELSE b

\* ----------------------------------------------------------------- Board
Stone(x, y, color) == [x |-> x, y |-> y, color |-> color]

\* Board.__init__; size is BOARD_SIZE in the program.
Board(size) == [size |-> size, stones |-> <<>>, last_move |-> None]

\* is_valid_move without the test for a stone on the cell.
is_valid_move_bounds_only(b, x, y) ==
    ~(x < 0 \/ x >= b.size \/ y < 0 \/ y >= b.size)

\* Board.is_valid_move
is_valid_move(b, x, y) ==
    IF x < 0 \/ x >= b.size \/ y < 0 \/ y >= b.size
    THEN FALSE
    ELSE ~ \E i \in 1..Len(b.stones) : b.stones[i].x = x /\ b.stones[i].y = y

\* place_stone without the update of last_move.
place_stone_keeps_last_move(b, x, y, color) ==
    IF is_valid_move(b, x, y)
    THEN [board |-> [b EXCEPT !.stones = Append(b.stones, Stone(x, y, color))],
          ret |-> TRUE]
    ELSE [board |-> b, ret |-> FALSE]

\* Board.place_stone: the board after the call and the value returned.
place_stone(b, x, y, color) ==
    IF is_valid_move(b, x, y)
    THEN [board |-> [b EXCEPT !.stones = Append(b.stones, Stone(x, y, color)),
                              !.last_move = Stone(x, y, color)],
          ret |-> TRUE]
    ELSE [board |-> b, ret |-> FALSE]

\* Board.get_stone_at: the first stone of the list at (x, y), or None.
first_or_none(found) == IF found = <<>> THEN None ELSE found[1]

get_stone_at(b, x, y) ==
    first_or_none(SelectSeq(b.stones, LAMBDA s : s.x = x /\ s.y = y))

\* The four axes of check_win and _evaluate_position.
directions == << <<1, 0>>, <<0, 1>>, <<1, 1>>, <<1, -1>> >>

\* The inner loop of check_win without the break: it counts every stone of
\* the colour among the four cells.
win_run_no_break(b, x, y, dx, dy, color) ==
    Cardinality({i \in 1..4 :
        /\ get_stone_at(b, x + dx * i, y + dy * i) # None
        /\ get_stone_at(b, x + dx * i, y + dy * i).color = color})

\* An inner loop of check_win: "for i in range(1, 5)" from (x, y) in
\* direction (dx, dy) adds one to count per step and is left at the first
\* cell that holds no stone of the colour; the result is what it adds.
win_run(b, x, y, dx, dy, color) ==
    LET breaks(i) ==
            LET stone == get_stone_at(b, x + dx * i, y + dy * i)
            IN  stone = None \/ stone.color # color
    IN  IF breaks(1) THEN 0 ELSE IF breaks(2) THEN 1
        ELSE IF breaks(3) THEN 2 ELSE IF breaks(4) THEN 3 ELSE 4

\* Board.check_win
check_win(b, last_stone) ==
    IF last_stone = None THEN FALSE
    ELSE \E d \in 1..4 :
           LET dx == directions[d][1]
               dy == directions[d][2]
           IN  1 + win_run(b, last_stone.x, last_stone.y, dx, dy, last_stone.color)
                 + win_run(b, last_stone.x, last_stone.y, -dx, -dy, last_stone.color)
                 >= 5

\* Board.is_game_over
is_game_over(b) ==
    IF b.last_move # None /\ check_win(b, b.last_move) THEN TRUE
    ELSE Len(b.stones) = b.size * b.size

\* remove_stone that takes the oldest stone off the board, whatever its cell.
remove_stone_oldest(b, x, y) ==
    [b EXCEPT !.stones = IF b.stones = <<>> THEN <<>> ELSE Tail(b.stones),
              !.last_move = IF b.last_move # None /\ b.last_move.x = x
                               /\ b.last_move.y = y
                            THEN None ELSE b.last_move]

\* remove_stone without the reset of last_move.
remove_stone_keeps_last_move(b, x, y) ==
    [b EXCEPT !.stones = SelectSeq(b.stones, LAMBDA s : ~(s.x = x /\ s.y = y))]

\* Board.remove_stone
remove_stone(b, x, y) ==
    [b EXCEPT !.stones = SelectSeq(b.stones, LAMBDA s : ~(s.x = x /\ s.y = y)),
              !.last_move = IF b.last_move # None /\ b.last_move.x = x
                               /\ b.last_move.y = y
                            THEN None ELSE b.last_move]

\* Board.get_winner
get_winner(b) ==
    IF b.last_move # None /\ check_win(b, b.last_move)
    THEN b.last_move.color ELSE NoColor

\* ---------------------------------------------------------------- AIPlayer
\* AIPlayer.weights: the score table of each difficulty.
weights(difficulty) ==
    CASE difficulty = EASY   -> [w2 |-> 10, w3 |-> 50,  w4 |-> 1000, w5 |-> 100000]
      [] difficulty = MEDIUM -> [w2 |-> 20, w3 |-> 100, w4 |-> 2000, w5 |-> 200000]
      [] difficulty = HARD   -> [w2 |-> 30, w3 |-> 200, w4 |-> 4000, w5 |-> 400000]

\* AIPlayer.search_depth
search_depth(difficulty) ==
    CASE difficulty = EASY   -> 2
      [] difficulty = MEDIUM -> 3
      [] difficulty = HARD   -> 4

\* "if stone and stone.color == color"
same_color(stone, color) == stone # None /\ stone.color = color

\* The else branch of an inner loop of _evaluate_position, which ends the
\* walk after count stones of the colour: an open end when get_stone_at gave
\* no stone (the cell is empty or off the board), a block when it gave a
\* stone of the other colour.
walk_end(stone, count) ==
    IF stone = None THEN [count |-> count, open_ends |-> 1, blocks |-> 0]
    ELSE [count |-> count, open_ends |-> 0, blocks |-> 1]

\* The stones that "for i in range(1, 5)" looks at from (x, y) in direction
\* (dx, dy).
walk_cells(b, x, y, dx, dy) ==
    [i \in 1..4 |-> get_stone_at(b, x + i * dx, y + i * dy)]

\* One inner loop of _evaluate_position over the stones cells: what it adds
\* to count, open_ends and blocks.  A walk of four stones of the colour ends
\* with neither an open end nor a block.
walk_result(cells, color) ==
    IF ~same_color(cells[1], color) THEN walk_end(cells[1], 0)
    ELSE IF ~same_color(cells[2], color) THEN walk_end(cells[2], 1)
    ELSE IF ~same_color(cells[3], color) THEN walk_end(cells[3], 2)
    ELSE IF ~same_color(cells[4], color) THEN walk_end(cells[4], 3)
    ELSE [count |-> 4, open_ends |-> 0, blocks |-> 0]

eval_walk(b, x, y, dx, dy, color) ==
    walk_result(walk_cells(b, x, y, dx, dy), color)

\* pattern_score with the score of a run of three not doubled when both of
\* its ends are open.
pattern_score_three_not_doubled(w, p) ==
    IF p.count >= 5 THEN w.w5
    ELSE IF p.count = 4 THEN
        (IF p.open_ends = 2 THEN w.w4 * 2 ELSE IF p.open_ends = 1 THEN w.w4 ELSE 0)
    ELSE IF p.count = 3 THEN
        (IF p.open_ends >= 1 THEN w.w3 ELSE 0)
    ELSE IF p.count = 2 THEN
        (IF p.open_ends = 2 THEN w.w2 * 2 ELSE IF p.open_ends = 1 THEN w.w2 ELSE 0)
    ELSE 0

\* The score of one axis in _evaluate_position, from the weights w and the
\* pattern p found on the axis.
pattern_score(w, p) ==
    IF p.count >= 5 THEN w.w5
    ELSE IF p.count = 4 THEN
        (IF p.open_ends = 2 THEN w.w4 * 2 ELSE IF p.open_ends = 1 THEN w.w4 ELSE 0)
    ELSE IF p.count = 3 THEN
        (IF p.open_ends = 2 THEN w.w3 * 2 ELSE IF p.open_ends = 1 THEN w.w3 ELSE 0)
    ELSE IF p.count = 2 THEN
        (IF p.open_ends = 2 THEN w.w2 * 2 ELSE IF p.open_ends = 1 THEN w.w2 ELSE 0)
    ELSE 0

\* count, open_ends and blocks of an axis after its two inner loops.
add_walks(pos, neg) ==
    [count |-> 1 + pos.count + neg.count,
     open_ends |-> pos.open_ends + neg.open_ends,
     blocks |-> pos.blocks + neg.blocks]

\* The run and the open ends that _evaluate_position finds on axis d.
axis_pattern(b, x, y, d, color) ==
    add_walks(eval_walk(b, x, y, directions[d][1], directions[d][2], color),
              eval_walk(b, x, y, -directions[d][1], -directions[d][2], color))

axis_score(difficulty, b, x, y, d, color) ==
    pattern_score(weights(difficulty), axis_pattern(b, x, y, d, color))

\* AIPlayer._evaluate_position
_evaluate_position(difficulty, x, y, b, color) ==
    axis_score(difficulty, b, x, y, 1, color)
    + axis_score(difficulty, b, x, y, 2, color)
    + axis_score(difficulty, b, x, y, 3, color)
    + axis_score(difficulty, b, x, y, 4, color)

\* _has_neighbor with distance = 1.
_has_neighbor_distance_1(b, x, y) ==
    \E dx \in -1..1 : \E dy \in -1..1 :
        /\ ~(dx = 0 /\ dy = 0)
        /\ 0 <= x + dx /\ x + dx < b.size
        /\ 0 <= y + dy /\ y + dy < b.size
        /\ get_stone_at(b, x + dx, y + dy) # None

\* AIPlayer._has_neighbor (distance = 2)
_has_neighbor(b, x, y) ==
    \E dx \in -2..2 : \E dy \in -2..2 :
        /\ ~(dx = 0 /\ dy = 0)
        /\ 0 <= x + dx /\ x + dx < b.size
        /\ 0 <= y + dy /\ y + dy < b.size
        /\ get_stone_at(b, x + dx, y + dy) # None

\* The cells of the board in the order of the nested loops
\* "for x in range(size): for y in range(size)".
scan_order(size) ==
    [k \in 1..(size * size) |-> <<(k - 1) \div size, (k - 1) % size>>]

\* A list built element by element, as the tuple of its elements.
List(f) == f \o <<>>

\* sorted(valid_moves, key = score, reverse = True): descending by score,
\* and stable, so that equal scores keep the order of the list.
sorted_desc(items) ==
    LET n == Len(items)
        rank == List([i \in 1..n |->
                   1 + Cardinality({j \in 1..n :
                         \/ items[j].score > items[i].score
                         \/ items[j].score = items[i].score /\ j < i})])
    IN  List([p \in 1..n |-> items[CHOOSE i \in 1..n : rank[i] = p]])

\* The cells that the loops of _get_valid_moves keep, in scan order.
candidate_cells(b) ==
    SelectSeq(scan_order(b.size),
              LAMBDA c : is_valid_move(b, c[1], c[2]) /\ _has_neighbor(b, c[1], c[2]))

\* The list valid_moves of (score, move) pairs: each cell with its
\* _evaluate_position for WHITE.
scored_moves(difficulty, b, cells) ==
    List([i \in 1..Len(cells) |->
            [score |-> _evaluate_position(difficulty, cells[i][1], cells[i][2],
                                          b, WHITE),
             move |-> cells[i]]])

\* "[move[1] for move in ...]"
moves_of(pairs) == List([i \in 1..Len(pairs) |-> pairs[i].move])

\* AIPlayer._get_valid_moves: the empty cells with a neighbour, each scored
\* by _evaluate_position for WHITE, in descending order of that score.
_get_valid_moves(difficulty, b) ==
    moves_of(sorted_desc(scored_moves(difficulty, b, candidate_cells(b))))

\* The body of the loop of _evaluate_board for cell k of the scan order:
\* what it adds to total_score.
cell_score(difficulty, b, k) ==
    IF is_valid_move(b, (k - 1) \div b.size, (k - 1) % b.size)
    THEN _evaluate_position(difficulty, (k - 1) \div b.size, (k - 1) % b.size,
                            b, WHITE)
         - _evaluate_position(difficulty, (k - 1) \div b.size, (k - 1) % b.size,
                              b, BLACK)
    ELSE 0

\* The loop of _evaluate_board over the cells lo..hi of the scan order (the
\* sum is split in halves, which keeps the evaluation shallow).
RECURSIVE board_sum(_, _, _, _)
board_sum(difficulty, b, lo, hi) ==
    IF lo = hi THEN cell_score(difficulty, b, lo)
    ELSE board_sum(difficulty, b, lo, (lo + hi) \div 2)
         + board_sum(difficulty, b, (lo + hi) \div 2 + 1, hi)

\* win_value with the two signs exchanged.
win_value_signs_exchanged(winner) ==
    IF winner = WHITE THEN NegInf
    ELSE IF winner = BLACK THEN PosInf
    ELSE 0

\* The value of a finished game without the case of a win of BLACK.
win_value_white_only(winner) ==
    IF winner = WHITE THEN PosInf ELSE 0

\* What _evaluate_board returns when the game is over.
win_value(winner) ==
    IF winner = WHITE THEN PosInf
    ELSE IF winner = BLACK THEN NegInf
    ELSE 0

\* AIPlayer._evaluate_board
_evaluate_board(difficulty, b) ==
    IF is_game_over(b)
    THEN win_value(get_winner(b))
    ELSE board_sum(difficulty, b, 1, b.size * b.size)

\* ------------------------------------------------------- the state machine
\* board:  the Board object.
\* stack:  the calls of the search in progress, outermost first: one frame
\*         for get_move and one for each nested _alpha_beta; empty when no
\*         search is running.
\* op, args, ret: the last call made from outside, its arguments and the
\*         value it returned.
\* before: the board as it was when that call was made.
\* game:   the fields of the Game object that its handlers read and write:
\*         state, game_mode, current_player and ai_move_made.
VARIABLES board, stack, op, args, ret, before, game
vars == <<board, stack, op, args, ret, before, game>>

\* GameState, GameMode and PlayerType
MENU == "MENU"
PLAYING == "PLAYING"
GAME_OVER == "GAME_OVER"
SETTINGS == "SETTINGS"
PVE == "PVE"
PVP == "PVP"
HUMAN == "HUMAN"
AI == "AI"

\* Game.__init__
Game ==
    [state |-> MENU, game_mode |-> PVE, current_player |-> HUMAN,
     ai_move_made |-> FALSE]

NoArgs == [x |-> 0, y |-> 0, color |-> NoColor, difficulty |-> "None"]

\* The frame of get_move on board b: the locals best_move, best_score,
\* alpha and beta, the list valid_moves and the index i of the candidate of
\* the current iteration of "for move in valid_moves".  entry is the board
\* at the call.
get_move_frame(difficulty, b) ==
    [fn |-> "get_move", difficulty |-> difficulty,
     depth |-> search_depth(difficulty),
     alpha |-> NegInf, beta |-> PosInf, is_maximizing |-> TRUE,
     leaf |-> FALSE, valid_moves |-> _get_valid_moves(difficulty, b), i |-> 1,
     best |-> NegInf, best_move |-> NoMove, done |-> FALSE, entry |-> b]

\* The frame of _alpha_beta(board, depth, alpha, beta, is_maximizing) on
\* board b.  When depth is 0 or the game is over the call returns
\* _evaluate_board at once (leaf, and best is the value returned);
\* otherwise best is max_eval or min_eval and done is set by the break.
alpha_beta_frame(difficulty, b, depth, alpha, beta, is_maximizing) ==
    IF depth = 0 \/ is_game_over(b)
    THEN [fn |-> "_alpha_beta", difficulty |-> difficulty, depth |-> depth,
          alpha |-> alpha, beta |-> beta, is_maximizing |-> is_maximizing,
          leaf |-> TRUE, valid_moves |-> <<>>, i |-> 1,
          best |-> _evaluate_board(difficulty, b), best_move |-> NoMove,
          done |-> FALSE, entry |-> b]
    ELSE [fn |-> "_alpha_beta", difficulty |-> difficulty, depth |-> depth,
          alpha |-> alpha, beta |-> beta, is_maximizing |-> is_maximizing,
          leaf |-> FALSE, valid_moves |-> _get_valid_moves(difficulty, b),
          i |-> 1,
          best |-> IF is_maximizing THEN NegInf ELSE PosInf,
          best_move |-> NoMove, done |-> FALSE, entry |-> b]

\* The call of frame f has nothing left to do but return.
finished(f) == f.leaf \/ f.done \/ f.i > Len(f.valid_moves)

\* The colour that the loop of frame f places: get_move and a maximizing
\* _alpha_beta place WHITE, a minimizing _alpha_beta places BLACK.
trial_color(f) == IF f.is_maximizing THEN WHITE ELSE BLACK

\* The frame of the recursive call that the loop of frame f makes on board
\* b (the board with the trial stone).
child_frame(f, b) ==
    alpha_beta_frame(f.difficulty, b, f.depth - 1, f.alpha, f.beta,
                     IF f.fn = "get_move" THEN FALSE ELSE ~f.is_maximizing)

\* after_child with the break of a minimizing _alpha_beta taken after its
\* first candidate, whatever alpha and beta are.
after_child_early_break(f, eval) ==
    IF f.fn = "get_move"
    THEN [f EXCEPT !.best = IF eval > f.best THEN eval ELSE f.best,
                   !.best_move = IF eval > f.best THEN f.valid_moves[f.i]
                                 ELSE f.best_move,
                   !.alpha = Max(f.alpha, IF eval > f.best THEN eval ELSE f.best),
                   !.i = f.i + 1]
    ELSE IF f.is_maximizing
    THEN [f EXCEPT !.best = Max(f.best, eval),
                   !.alpha = Max(f.alpha, eval),
                   !.done = f.beta <= Max(f.alpha, eval),
                   !.i = f.i + 1]
    ELSE [f EXCEPT !.best = Min(f.best, eval),
                   !.beta = Min(f.beta, eval),
                   !.done = TRUE,
                   !.i = f.i + 1]

\* after_child with max_eval of a maximizing _alpha_beta set by the first
\* candidate only.
after_child_first_candidate(f, eval) ==
    IF f.fn = "get_move"
    THEN [f EXCEPT !.best = IF eval > f.best THEN eval ELSE f.best,
                   !.best_move = IF eval > f.best THEN f.valid_moves[f.i]
                                 ELSE f.best_move,
                   !.alpha = Max(f.alpha, IF eval > f.best THEN eval ELSE f.best),
                   !.i = f.i + 1]
    ELSE IF f.is_maximizing
    THEN [f EXCEPT !.best = IF f.i = 1 THEN eval ELSE f.best,
                   !.alpha = Max(f.alpha, eval),
                   !.done = f.beta <= Max(f.alpha, eval),
                   !.i = f.i + 1]
    ELSE [f EXCEPT !.best = Min(f.best, eval),
                   !.beta = Min(f.beta, eval),
                   !.done = Min(f.beta, eval) <= f.alpha,
                   !.i = f.i + 1]

\* The rest of an iteration of the loop of frame f once the recursive call
\* has returned eval (score in get_move): the update of the locals, and the
\* break of _alpha_beta.
after_child(f, eval) ==
    IF f.fn = "get_move"
    THEN [f EXCEPT !.best = IF eval > f.best THEN eval ELSE f.best,
                   !.best_move = IF eval > f.best THEN f.valid_moves[f.i]
                                 ELSE f.best_move,
                   !.alpha = Max(f.alpha, IF eval > f.best THEN eval ELSE f.best),
                   !.i = f.i + 1]
    ELSE IF f.is_maximizing
    THEN [f EXCEPT !.best = Max(f.best, eval),
                   !.alpha = Max(f.alpha, eval),
                   !.done = f.beta <= Max(f.alpha, eval),
                   !.i = f.i + 1]
    ELSE [f EXCEPT !.best = Min(f.best, eval),
                   !.beta = Min(f.beta, eval),
                   !.done = Min(f.beta, eval) <= f.alpha,
                   !.i = f.i + 1]

\* The return statement of get_move with the corner (0, 0) as the default.
get_move_return_corner(f, b) ==
    IF f.best_move # NoMove THEN f.best_move ELSE <<0, 0>>

\* The return statement of get_move (an unset best_move is None, which is
\* false in "if best_move").
get_move_return(f, b) ==
    IF f.best_move # NoMove THEN f.best_move
    ELSE <<b.size \div 2, b.size \div 2>>

\* The coordinates that callers pass: 0 and 2 on the board, and the first
\* coordinate off the board on each side.
Coords(size) == {-1, 0, 2, size}

\* The searches that are run: on an empty board, when the stones on the
\* board plus the plies of the search are at most MaxPly, and when at most
\* MaxHoles cells are empty.
searched(b, difficulty) ==
    \/ b.stones = <<>>
    \/ Len(b.stones) + search_depth(difficulty) <= MaxPly
    \/ b.size * b.size - Len(b.stones) <= MaxHoles

\* The observing calls (the search, the move generator, the evaluation,
\* check_win) are made on the board as it was constructed or as a call that
\* changed it has left it: they do not read what the calls before them
\* returned.
Changed == op = "init" \/ board # before

\* Board.__init__
Init ==
    /\ board = Board(N)
    /\ stack = <<>>
    /\ op = "init"
    /\ args = NoArgs
    /\ ret = None
    /\ before = Board(N)
    /\ game = Game

\* A call board.place_stone(x, y, color).
PlaceStone ==
    /\ stack = <<>>
    /\ \E x \in Coords(board.size), y \in Coords(board.size), color \in Colors :
        /\ Len(board.stones) < MaxStones \/ ~is_valid_move(board, x, y)
        /\ board' = place_stone(board, x, y, color).board
        /\ ret' = place_stone(board, x, y, color).ret
        /\ op' = "place_stone"
        /\ args' = [NoArgs EXCEPT !.x = x, !.y = y, !.color = color]
        /\ before' = board
    /\ UNCHANGED <<stack, game>>

\* A call board.remove_stone(x, y).
RemoveStone ==
    /\ stack = <<>>
    /\ \E x \in Coords(board.size), y \in Coords(board.size) :
        /\ board' = remove_stone(board, x, y)
        /\ ret' = None
        /\ op' = "remove_stone"
        /\ args' = [NoArgs EXCEPT !.x = x, !.y = y]
        /\ before' = board
    /\ UNCHANGED <<stack, game>>

\* A call AIPlayer(difficulty).get_move(board): up to the loop.
GetMove ==
    /\ stack = <<>>
    /\ Changed
    /\ \E difficulty \in Difficulty :
        /\ searched(board, difficulty)
        /\ stack' = <<get_move_frame(difficulty, board)>>
        /\ op' = "get_move"
        /\ args' = [NoArgs EXCEPT !.difficulty = difficulty]
    /\ ret' = NoMove
    /\ before' = board
    /\ UNCHANGED <<board, game>>

\* An iteration of the loop of get_move or _alpha_beta, up to the entry of
\* the recursive call: the trial stone is placed and _alpha_beta is called.
Trial ==
    /\ stack # <<>>
    /\ stack[1].fn # "minimax"
    /\ ~finished(stack[Len(stack)])
    /\ LET f == stack[Len(stack)]
           move == f.valid_moves[f.i]
       IN  /\ board' = place_stone(board, move[1], move[2], trial_color(f)).board
           /\ stack' = Append(stack, child_frame(f, board'))
    /\ UNCHANGED <<op, args, ret, before, game>>

\* The return of a call of _alpha_beta and the rest of the iteration of the
\* caller's loop: the trial stone is removed and the locals are updated.
Undo ==
    /\ Len(stack) >= 2
    /\ stack[1].fn # "minimax"
    /\ finished(stack[Len(stack)])
    /\ LET f == stack[Len(stack) - 1]
           move == f.valid_moves[f.i]
       IN  /\ board' = remove_stone(board, move[1], move[2])
           /\ stack' = [SubSeq(stack, 1, Len(stack) - 1) EXCEPT
                          ![Len(stack) - 1] = after_child(f, stack[Len(stack)].best)]
    /\ UNCHANGED <<op, args, ret, before, game>>

\* The return of get_move.
GetMoveReturn ==
    /\ Len(stack) = 1
    /\ stack[1].fn = "get_move"
    /\ finished(stack[1])
    /\ ret' = get_move_return(stack[1], board)
    /\ stack' = <<>>
    /\ UNCHANGED <<board, op, args, before, game>>

\* A call AIPlayer(difficulty)._get_valid_moves(board).
GetValidMoves ==
    /\ stack = <<>>
    /\ Changed
    /\ \E difficulty \in Difficulty :
        /\ ret' = _get_valid_moves(difficulty, board)
        /\ args' = [NoArgs EXCEPT !.difficulty = difficulty]
    /\ op' = "_get_valid_moves"
    /\ before' = board
    /\ UNCHANGED <<board, stack, game>>

\* A call board.place_stone(x, y, color) followed at once by
\* board.remove_stone(x, y).
PlaceRemove ==
    /\ stack = <<>>
    /\ \E x \in Coords(board.size), y \in Coords(board.size), color \in Colors :
        /\ board' = remove_stone(place_stone(board, x, y, color).board, x, y)
        /\ args' = [NoArgs EXCEPT !.x = x, !.y = y, !.color = color]
    /\ ret' = None
    /\ op' = "place_remove"
    /\ before' = board
    /\ UNCHANGED <<stack, game>>

\* A call AIPlayer(difficulty)._evaluate_board(board).
EvaluateBoard ==
    /\ stack = <<>>
    /\ Changed
    /\ \E difficulty \in Difficulty :
        /\ ret' = _evaluate_board(difficulty, board)
        /\ args' = [NoArgs EXCEPT !.difficulty = difficulty]
    /\ op' = "_evaluate_board"
    /\ before' = board
    /\ UNCHANGED <<board, stack, game>>

\* A call board.check_win(s) for a stone s of the board.
CheckWin ==
    /\ stack = <<>>
    /\ Changed
    /\ \E i \in 1..Len(board.stones) :
        /\ ret' = check_win(board, board.stones[i])
        /\ args' = [NoArgs EXCEPT !.x = board.stones[i].x, !.y = board.stones[i].y,
                                  !.color = board.stones[i].color]
    /\ op' = "check_win"
    /\ before' = board
    /\ UNCHANGED <<board, stack, game>>

Next ==
    \/ PlaceStone
    \/ RemoveStone
    \/ PlaceRemove
    \/ GetMove
    \/ Trial
    \/ Undo
    \/ GetMoveReturn
    \/ GetValidMoves

\* Calls from outside and searches, from the empty board of side N.
Spec == Init /\ [][Next]_vars

\* The calls that change the board and the searches, from the empty board
\* of the program, Board() with size = BOARD_SIZE.
Init15 ==
    /\ board = Board(BOARD_SIZE)
    /\ stack = <<>>
    /\ op = "init"
    /\ args = NoArgs
    /\ ret = None
    /\ before = Board(BOARD_SIZE)
    /\ game = Game

Next15 ==
    \/ PlaceStone
    \/ RemoveStone
    \/ GetMove
    \/ Trial
    \/ Undo
    \/ GetMoveReturn

Spec15 == Init15 /\ [][Next15]_vars

\* ------------------------------------------------------ scripted positions
\* A colouring of the cells in which no line holds three cells of a colour
\* in a row.
draw_color(x, y) == IF (x + 2 * y) % 4 < 2 THEN BLACK ELSE WHITE

\* The patterns of the scripted positions: "empty" plays only the special
\* cells; "draw" plays every cell but the special ones in draw_color; BLACK
\* and WHITE do the same with the last row and the last column in that one
\* colour.
Patterns == {"empty", "draw", BLACK, WHITE}

pattern_color(p, size, x, y) ==
    IF p \in Colors /\ (x = size - 1 \/ y = size - 1) THEN p ELSE draw_color(x, y)

\* The cells that a script may treat specially: the corner cells and the
\* cells next to them.
SpecialCells(size) == {<<x, y>> : x \in {0, 1, size - 1}, y \in {0, 1, size - 1}}

\* The stones of the cells, in their order.
stones_of(cells, p, size) ==
    List([i \in 1..Len(cells) |->
            Stone(cells[i][1], cells[i][2],
                  pattern_color(p, size, cells[i][1], cells[i][2]))])

\* The board after a place_stone call for each of the stones, in order.
board_of(size, stones) ==
    [size |-> size, stones |-> stones,
     last_move |-> IF stones = <<>> THEN None ELSE stones[Len(stones)]]

\* The board after the script of pattern p with the special cells: a
\* place_stone call for each cell it plays, in scan order.
played(size, p, special) ==
    board_of(size,
             stones_of(SelectSeq(scan_order(size),
                                 LAMBDA c : IF p = "empty" THEN c \in special
                                            ELSE c \notin special),
                       p, size))

InitAI ==
    /\ \E p \in Patterns, special \in SUBSET SpecialCells(N) :
        /\ Cardinality(special) <= MaxHoles
        /\ board = played(N, p, special)
    /\ stack = <<>>
    /\ op = "init"
    /\ args = NoArgs
    /\ ret = None
    /\ before = board
    /\ game = Game

NextAI ==
    \/ GetMove
    \/ Trial
    \/ Undo
    \/ GetMoveReturn
    \/ GetValidMoves
    \/ EvaluateBoard

\* The search and the evaluation on the scripted positions.
SpecAI == InitAI /\ [][NextAI]_vars

\* ----------------------------------------------------------- lines of stones
\* Cell k (from 0) of the line of axis d that starts on the edge of the
\* board: the first row, the first column, the main diagonal and the
\* antidiagonal.
line_cell(size, d, k) ==
    CASE d = 1 -> <<k, 0>>
      [] d = 2 -> <<0, k>>
      [] d = 3 -> <<k, k>>
      [] d = 4 -> <<k, size - 1 - k>>

\* The board after a place_stone call for each cell of the line of axis d
\* that colouring c gives a colour, in the order of the line.
line_stones(size, d, c) ==
    List([i \in 1..Len(SelectSeq([k \in 1..size |-> k - 1],
                                 LAMBDA k : c[k] # NoColor)) |->
            LET k == SelectSeq([j \in 1..size |-> j - 1],
                               LAMBDA j : c[j] # NoColor)[i]
            IN  Stone(line_cell(size, d, k)[1], line_cell(size, d, k)[2], c[k])])

InitWin ==
    /\ \/ \E d \in 1..4, c \in [0..(WinSize - 1) -> Colors \cup {NoColor}] :
            board = board_of(WinSize, line_stones(WinSize, d, c))
       \/ \E p \in Patterns, special \in SUBSET SpecialCells(WinSize) :
            /\ Cardinality(special) <= MaxHoles
            /\ board = played(WinSize, p, special)
    /\ stack = <<>>
    /\ op = "init"
    /\ args = NoArgs
    /\ ret = None
    /\ before = board
    /\ game = Game

NextWin == CheckWin

\* check_win on the lines of stones and on the scripted positions.
SpecWin == InitWin /\ [][NextWin]_vars

\* ------------------------------------------------------- calls of _alpha_beta

\* A call ai._alpha_beta(board, depth, float('-inf'), float('inf'), True) of
\* an AIPlayer of the difficulty, from outside get_move, with depth >= 1.
AlphaBeta ==
    /\ stack = <<>>
    /\ op = "init"
    /\ \E difficulty \in Difficulty, depth \in 1..2 :
        /\ \/ board.stones = <<>>
           \/ Len(board.stones) + depth <= MaxPly
           \/ board.size * board.size - Len(board.stones) <= MaxHoles
        /\ stack' = <<alpha_beta_frame(difficulty, board, depth, NegInf, PosInf, TRUE)>>
        /\ args' = [x |-> 0, y |-> 0, color |-> NoColor,
                    difficulty |-> difficulty, depth |-> depth]
    /\ op' = "_alpha_beta"
    /\ ret' = NoMove
    /\ before' = board
    /\ UNCHANGED <<board, game>>

\* The return of that call: max_eval, or _evaluate_board(board) when the
\* game is over.
AlphaBetaReturn ==
    /\ Len(stack) = 1
    /\ stack[1].fn = "_alpha_beta"
    /\ finished(stack[1])
    /\ ret' = stack[1].best
    /\ stack' = <<>>
    /\ UNCHANGED <<board, op, args, before, game>>

NextSearch ==
    \/ AlphaBeta
    \/ Trial
    \/ Undo
    \/ AlphaBetaReturn

\* _alpha_beta called on the scripted positions.
SpecSearch == InitAI /\ [][NextSearch]_vars

\* ---------------------------------------------- the search without pruning
\* The search of get_move with the two "if beta <= alpha: break" statements
\* of _alpha_beta taken out: the same candidate lists in the same order, the
\* same recursion and the same choice of the first candidate with the
\* strictly greatest score.  Its frames have fn "minimax"; alpha and beta are
\* not used.

\* The frame of the outermost call on board b.
minimax_frame(difficulty, b) ==
    [fn |-> "minimax", difficulty |-> difficulty,
     depth |-> search_depth(difficulty),
     alpha |-> NegInf, beta |-> PosInf, is_maximizing |-> TRUE,
     leaf |-> FALSE, valid_moves |-> _get_valid_moves(difficulty, b), i |-> 1,
     best |-> NegInf, best_move |-> NoMove, done |-> FALSE, entry |-> b]

\* The frame of the recursive call that the loop of frame f makes on board b.
minimax_child(f, b) ==
    IF f.depth - 1 = 0 \/ is_game_over(b)
    THEN [fn |-> "minimax", difficulty |-> f.difficulty, depth |-> f.depth - 1,
          alpha |-> NegInf, beta |-> PosInf,
          is_maximizing |-> ~f.is_maximizing,
          leaf |-> TRUE, valid_moves |-> <<>>, i |-> 1,
          best |-> _evaluate_board(f.difficulty, b), best_move |-> NoMove,
          done |-> FALSE, entry |-> b]
    ELSE [fn |-> "minimax", difficulty |-> f.difficulty, depth |-> f.depth - 1,
          alpha |-> NegInf, beta |-> PosInf,
          is_maximizing |-> ~f.is_maximizing,
          leaf |-> FALSE, valid_moves |-> _get_valid_moves(f.difficulty, b),
          i |-> 1,
          best |-> IF f.is_maximizing THEN PosInf ELSE NegInf,
          best_move |-> NoMove, done |-> FALSE, entry |-> b]

\* The rest of an iteration of the loop of frame f once the recursive call
\* has returned eval: in the outermost call the first strictly greatest
\* score and its move are kept, in the others the greatest or the least
\* value.
minimax_after(f, eval, outermost) ==
    IF outermost
    THEN [f EXCEPT !.best = IF eval > f.best THEN eval ELSE f.best,
                   !.best_move = IF eval > f.best THEN f.valid_moves[f.i]
                                 ELSE f.best_move,
                   !.i = f.i + 1]
    ELSE IF f.is_maximizing
    THEN [f EXCEPT !.best = Max(f.best, eval), !.i = f.i + 1]
    ELSE [f EXCEPT !.best = Min(f.best, eval), !.i = f.i + 1]

\* The search without pruning is started on the board that a call of
\* get_move has just returned from, for the same difficulty.
Minimax ==
    /\ op = "get_move"
    /\ stack = <<>>
    /\ stack' = <<minimax_frame(args.difficulty, board)>>
    /\ op' = "minimax"
    /\ ret' = [pruned |-> ret, plain |-> NoMove]
    /\ UNCHANGED <<board, args, before, game>>

MinimaxTrial ==
    /\ stack # <<>>
    /\ stack[1].fn = "minimax"
    /\ ~finished(stack[Len(stack)])
    /\ LET f == stack[Len(stack)]
           move == f.valid_moves[f.i]
       IN  /\ board' = place_stone(board, move[1], move[2], trial_color(f)).board
           /\ stack' = Append(stack, minimax_child(f, board'))
    /\ UNCHANGED <<op, args, ret, before, game>>

MinimaxUndo ==
    /\ Len(stack) >= 2
    /\ stack[1].fn = "minimax"
    /\ finished(stack[Len(stack)])
    /\ LET f == stack[Len(stack) - 1]
           move == f.valid_moves[f.i]
       IN  /\ board' = remove_stone(board, move[1], move[2])
           /\ stack' = [SubSeq(stack, 1, Len(stack) - 1) EXCEPT
                          ![Len(stack) - 1] =
                              minimax_after(f, stack[Len(stack)].best,
                                            Len(stack) = 2)]
    /\ UNCHANGED <<op, args, ret, before, game>>

\* The return of the search without pruning, with the default of get_move.
MinimaxReturn ==
    /\ Len(stack) = 1
    /\ stack[1].fn = "minimax"
    /\ finished(stack[1])
    /\ ret' = [ret EXCEPT !.plain = get_move_return(stack[1], board)]
    /\ stack' = <<>>
    /\ UNCHANGED <<board, op, args, before, game>>

NextPlain ==
    \/ GetMove
    \/ Trial
    \/ Undo
    \/ GetMoveReturn
    \/ Minimax
    \/ MinimaxTrial
    \/ MinimaxUndo
    \/ MinimaxReturn

\* get_move and the search without pruning on the scripted positions.
SpecPlain == InitAI /\ [][NextPlain]_vars

\* ------------------------------------------------------ evaluated positions

\* The cells that "for i in range(1, 5)" of _evaluate_position steps through.
WalkLen == 4

\* The cells at which _evaluate_position is called: one whose walks stay on
\* the board, one near a corner and one on an edge.
EvalCells == {<<7, 7>>, <<3, 11>>, <<0, 7>>}

other_color(color) == IF color = WHITE THEN BLACK ELSE WHITE

\* The stones of a ray from (x, y) in direction (dx, dy): k stones of the
\* colour, then a stone of colour term (NoColor: no stone) on the next cell;
\* the cells off the board get no stone.
ray_stones(size, x, y, dx, dy, k, term, color) ==
    SelectSeq([i \in 1..(WalkLen + 1) |->
                  Stone(x + i * dx, y + i * dy, IF i <= k THEN color ELSE term)],
              LAMBDA s : /\ s.color # NoColor
                         /\ Max(s.x - x, x - s.x) <= k + 1
                         /\ Max(s.y - y, y - s.y) <= k + 1
                         /\ 0 <= s.x /\ s.x < size /\ 0 <= s.y /\ s.y < size)

\* The stones of a line through (x, y) on axis d: a ray on each side and,
\* when own is TRUE, a stone of the colour on (x, y) itself.
axis_stones(size, x, y, d, kp, tp, kn, tn, color, own) ==
    (IF own THEN <<Stone(x, y, color)>> ELSE <<>>)
    \o ray_stones(size, x, y, directions[d][1], directions[d][2], kp, tp, color)
    \o ray_stones(size, x, y, -directions[d][1], -directions[d][2], kn, tn, color)

\* A board of the program's size with a line of stones through one of the
\* cells.
InitEval ==
    /\ \E c \in EvalCells, d \in 1..4, color \in Colors, own \in BOOLEAN,
          kp \in 0..WalkLen, kn \in 0..WalkLen,
          tp \in {NoColor, BLACK, WHITE}, tn \in {NoColor, BLACK, WHITE} :
            /\ tp # color /\ tn # color
            /\ board = board_of(BOARD_SIZE,
                                axis_stones(BOARD_SIZE, c[1], c[2], d,
                                            kp, tp, kn, tn, color, own))
    /\ stack = <<>>
    /\ op = "init"
    /\ args = NoArgs
    /\ ret = None
    /\ before = board
    /\ game = Game

\* A call ai._evaluate_position(x, y, board, color) of an AIPlayer of the
\* difficulty.  ret.score is the value returned; ret.axes[d] is count,
\* open_ends and blocks at the end of the iteration for axis d.
EvaluatePosition ==
    /\ stack = <<>>
    /\ op = "init"
    /\ \E c \in EvalCells, color \in Colors, difficulty \in Difficulty :
        /\ ret' = [score |-> _evaluate_position(difficulty, c[1], c[2], board, color),
                   axes |-> <<axis_pattern(board, c[1], c[2], 1, color),
                              axis_pattern(board, c[1], c[2], 2, color),
                              axis_pattern(board, c[1], c[2], 3, color),
                              axis_pattern(board, c[1], c[2], 4, color)>>]
        /\ args' = [x |-> c[1], y |-> c[2], color |-> color, difficulty |-> difficulty]
    /\ op' = "_evaluate_position"
    /\ before' = board
    /\ UNCHANGED <<board, stack, game>>

NextEval == EvaluatePosition

\* _evaluate_position on the lines of stones through the cells.
SpecEval == InitEval /\ [][NextEval]_vars

\* ------------------------------------------------- positions with an open four

\* The cells left empty in a position with a four of BLACK on (1, 0)..(4, 0)
\* and a run of w stones of WHITE on (0, 1)..(0, w): the two ends of the
\* four, (0, 0) and (5, 0), and the two ends of WHITE's run, (0, 0) and (0, 4),
\* when w is 3.
scene_holes(w) ==
    {<<0, 0>>, <<5, 0>>} \cup (IF w = 3 THEN {<<0, 4>>} ELSE {})

\* The colours of that position; the cells off the two runs are in
\* draw_color, shifted by k columns.
scene_color(k, w, x, y) ==
    IF y = 0 /\ x \in 1..4 THEN BLACK
    ELSE IF x = 0 /\ y \in 1..w THEN WHITE
    ELSE IF x = 0 /\ y = 5 THEN BLACK
    ELSE draw_color(x + k, y)

\* The board after a place_stone call for each cell but the holes, in scan
\* order; with t the position is mirrored in the diagonal.
scene(size, k, w, t) ==
    board_of(size,
             List([i \in 1..(size * size - Cardinality(scene_holes(w))) |->
                    LET c == SelectSeq(scan_order(size),
                                       LAMBDA e : e \notin scene_holes(w))[i]
                    IN  IF t THEN Stone(c[2], c[1], scene_color(k, w, c[1], c[2]))
                        ELSE Stone(c[1], c[2], scene_color(k, w, c[1], c[2]))]))

\* The positions in which WHITE has an open three (w = 3), or a four with
\* the winning cell (0, 0) (w = 4), against BLACK's open four.
InitScene ==
    /\ \E k \in 0..3, w \in 3..4, t \in BOOLEAN :
            board = scene(SceneSize, k, w, t)
    /\ stack = <<>>
    /\ op = "init"
    /\ args = NoArgs
    /\ ret = None
    /\ before = board
    /\ game = Game

NextScene ==
    \/ GetMove
    \/ Trial
    \/ Undo
    \/ GetMoveReturn

\* get_move on the positions with an open four.
SpecScene == InitScene /\ [][NextScene]_vars

\* ------------------------------------------------------------------ the Game

\* Game.handle_menu_event for a click on menu button i: 0 is "Player vs AI",
\* 1 is "Player vs Player", 2 is "Settings".
handle_menu_event(g, i) ==
    IF i = 0 THEN [g EXCEPT !.game_mode = PVE, !.state = PLAYING]
    ELSE IF i = 1 THEN [g EXCEPT !.game_mode = PVP, !.state = PLAYING]
    ELSE IF i = 2 THEN [g EXCEPT !.state = SETTINGS]
    ELSE g

\* The fields of the Game after the body of "if self.board.place_stone(x, y,
\* BLACK)" in handle_game_event, b the board with the stone.
after_human_stone(g, b) ==
    IF b.last_move # None /\ check_win(b, b.last_move)
    THEN [g EXCEPT !.state = GAME_OVER]
    ELSE IF g.game_mode = PVE
    THEN [g EXCEPT !.current_player = AI, !.ai_move_made = FALSE]
    ELSE g

\* The fields of the Game after the body of "if self.board.place_stone(x, y,
\* WHITE)" in update, b the board with the stone.
after_ai_stone(g, b) ==
    IF check_win(b, b.last_move)
    THEN [g EXCEPT !.ai_move_made = TRUE, !.state = GAME_OVER]
    ELSE [g EXCEPT !.ai_move_made = TRUE, !.current_player = HUMAN]

\* The cells that a click can give: every cell of the board and one off it.
ClickCells(size) == ((0..(size - 1)) \X (0..(size - 1))) \cup {<<-1, 0>>}

\* Game.__init__ with a board of side GameSize.
InitGame ==
    /\ board = Board(GameSize)
    /\ stack = <<>>
    /\ op = "init"
    /\ args = NoArgs
    /\ ret = None
    /\ before = board
    /\ game = Game

\* handle_event for a click on a menu button, in state MENU or SETTINGS.
MenuClick ==
    /\ stack = <<>>
    /\ game.state \in {MENU, SETTINGS}
    /\ \E i \in 0..2 :
        /\ game' = handle_menu_event(game, i)
        /\ args' = [NoArgs EXCEPT !.x = i]
    /\ op' = "handle_menu_event"
    /\ ret' = None
    /\ before' = board
    /\ UNCHANGED <<board, stack>>

\* handle_event for a MOUSEBUTTONDOWN on cell (x, y) in state PLAYING:
\* handle_game_event.  In Player vs Player mode the stones are capped at
\* MaxPvpStones.
HandleGameEvent ==
    /\ stack = <<>>
    /\ game.state = PLAYING
    /\ game.game_mode = PVP => Len(board.stones) < MaxPvpStones
    /\ \E c \in ClickCells(board.size) :
        /\ args' = [NoArgs EXCEPT !.x = c[1], !.y = c[2], !.color = BLACK]
        /\ IF game.current_player = HUMAN
           THEN /\ board' = place_stone(board, c[1], c[2], BLACK).board
                /\ ret' = place_stone(board, c[1], c[2], BLACK).ret
                /\ game' = IF ret' THEN after_human_stone(game, board') ELSE game
           ELSE /\ ret' = FALSE
                /\ UNCHANGED <<board, game>>
    /\ op' = "handle_game_event"
    /\ before' = board
    /\ UNCHANGED stack

\* Game.update in state PLAYING when it is the AI's turn, up to the first
\* iteration of the loop of get_move.  self.ai is AIPlayer(Difficulty.MEDIUM).
Update ==
    /\ stack = <<>>
    /\ game.state = PLAYING
    /\ game.current_player = AI /\ ~game.ai_move_made
    /\ stack' = <<get_move_frame(MEDIUM, board)>>
    /\ op' = "update"
    /\ args' = [NoArgs EXCEPT !.difficulty = MEDIUM]
    /\ ret' = NoMove
    /\ before' = board
    /\ UNCHANGED <<board, game>>

\* The rest of update once get_move has returned: place_stone of WHITE on
\* the cell returned and, when it succeeds, the test for a win.
UpdateReturn ==
    /\ op = "update"
    /\ Len(stack) = 1
    /\ finished(stack[1])
    /\ ret' = get_move_return(stack[1], board)
    /\ board' = place_stone(board, ret'[1], ret'[2], WHITE).board
    /\ game' = IF place_stone(board, ret'[1], ret'[2], WHITE).ret
               THEN after_ai_stone(game, board') ELSE game
    /\ stack' = <<>>
    /\ UNCHANGED <<op, args, before>>

NextGame ==
    \/ MenuClick
    \/ HandleGameEvent
    \/ Update
    \/ Trial
    \/ Undo
    \/ UpdateReturn

\* The Game: the menu, the clicks of the human and the moves of the AI.
SpecGame == InitGame /\ [][NextGame]_vars

\* ------------------------------------------------------------- properties
Abs(n) == IF n < 0 THEN -n ELSE n

\* The stones of board b as a set.
StoneSet(b) == {b.stones[i] : i \in 1..Len(b.stones)}

InBounds(b, x, y) == 0 <= x /\ x < b.size /\ 0 <= y /\ y < b.size

Occupied(b, x, y) == \E s \in StoneSet(b) : s.x = x /\ s.y = y

\* Cell (x, y) of board b holds a stone of the colour.
Holds(b, x, y, color) == \E s \in StoneSet(b) : s.x = x /\ s.y = y /\ s.color = color

\* Along one of the four axes, five cells in a row that include the cell of
\* stone s are on the board and all hold stones of the colour of s.
FiveThrough(b, s) ==
    \E d \in {<<1, 0>>, <<0, 1>>, <<1, 1>>, <<1, -1>>} : \E k \in 0..4 :
        \A j \in 0..4 :
            /\ InBounds(b, s.x + (j - k) * d[1], s.y + (j - k) * d[2])
            /\ Holds(b, s.x + (j - k) * d[1], s.y + (j - k) * d[2], s.color)

\* The empty cells of board b with a stone at Chebyshev distance 1 or 2.
NearCells(b) ==
    {c \in (0..(b.size - 1)) \X (0..(b.size - 1)) :
        /\ ~Occupied(b, c[1], c[2])
        /\ \E s \in StoneSet(b) :
             Max(Abs(s.x - c[1]), Abs(s.y - c[2])) \in {1, 2}}

\* A call of get_move has returned.
Returned == op = "get_move" /\ stack = <<>>

\* C1: place_stone(x, y, color) returns true exactly when (x, y) is on the
\* board and holds no stone; then the stones are the old stones with the
\* new stone appended and last_move is the new stone; when it returns false
\* the stones and last_move are unchanged.
C1_PlaceStoneContract ==
    op = "place_stone" =>
        /\ ret = (InBounds(before, args.x, args.y) /\ ~Occupied(before, args.x, args.y))
        /\ ret = TRUE =>
            /\ board.stones = Append(before.stones, Stone(args.x, args.y, args.color))
            /\ board.last_move = Stone(args.x, args.y, args.color)
            /\ board.size = before.size
        /\ ret = FALSE => board = before

\* A stone has been placed on a board that already held one.
C1_Witness ==
    op = "place_stone" /\ ret = TRUE /\ before.stones # <<>>

\* C2: place_stone(x, y, c) followed at once by remove_stone(x, y) leaves
\* the board with the stone set and the last_move it had before, for every
\* coordinate, on the board or not, occupied or empty.
C2_RoundTrip ==
    op = "place_remove" =>
        /\ StoneSet(board) = StoneSet(before)
        /\ board.last_move = before.last_move

\* C3: when get_move returns, the board is the board of the call: the same
\* stones in the same order and the same last_move.
C3_BoardRestored ==
    Returned => board = before

\* C4: get_move returns one of the candidates of the move generator, a cell
\* on the board that holds no stone; it returns the centre of the board
\* only when the generator yields no candidate.
C4_LegalMove ==
    Returned =>
        IF _get_valid_moves(args.difficulty, before) = <<>>
        THEN ret = <<before.size \div 2, before.size \div 2>>
        ELSE /\ \E i \in 1..Len(_get_valid_moves(args.difficulty, before)) :
                  ret = _get_valid_moves(args.difficulty, before)[i]
             /\ InBounds(before, ret[1], ret[2])
             /\ ~Occupied(before, ret[1], ret[2])

\* C5: on the empty 15x15 board get_move returns (7, 7) for each of the
\* three difficulties, and the board is still empty afterwards.
C5_EmptyBoardCentre ==
    Returned /\ before = Board(BOARD_SIZE) =>
        /\ ret = <<7, 7>>
        /\ board.stones = <<>>

\* get_move of the HARD player has returned on the empty 15x15 board.
C5_Witness ==
    Returned /\ before = Board(BOARD_SIZE) /\ args.difficulty = HARD

\* The stone passed to check_win.
Tested == Stone(args.x, args.y, args.color)

\* The stones of the board are exactly the cells of the first row with x in
\* xs, all of one colour.
RowOf(b, xs) ==
    \E color \in Colors : StoneSet(b) = {Stone(x, 0, color) : x \in xs}

\* C6: check_win(s) for a stone s of the board is true if and only if along
\* one of the four axes five or more cells in a row that include the cell of
\* s all hold stones of the colour of s; the run (0,0)..(4,0) of one colour
\* gives true and the broken run (0,0),(1,0),(3,0),(4,0),(5,0) gives false
\* for every stone tested.
C6_CheckWin ==
    op = "check_win" =>
        /\ ret = FiveThrough(before, Tested)
        /\ RowOf(before, {0, 1, 2, 3, 4}) => ret = TRUE
        /\ RowOf(before, {0, 1, 3, 4, 5}) => ret = FALSE

\* check_win has been applied to the stone at (3, 0) of the broken run.
C6_Witness ==
    op = "check_win" /\ RowOf(before, {0, 1, 3, 4, 5}) /\ args.x = 3 /\ ret = FALSE

\* last_move of board b is a stone of the colour that completes five in a
\* row.
WonBy(b, color) ==
    b.last_move # None /\ b.last_move.color = color /\ FiveThrough(b, b.last_move)

\* C7: _evaluate_board returns +infinity when last_move is a WHITE stone
\* that completes five in a row, -infinity when it is a BLACK stone that
\* completes five in a row, 0 when the board holds N*N stones and last_move
\* does not complete five in a row, and a finite value in every other case.
C7_EvaluateBoard ==
    op = "_evaluate_board" =>
        IF WonBy(before, WHITE) THEN ret = PosInf
        ELSE IF WonBy(before, BLACK) THEN ret = NegInf
        ELSE IF Len(before.stones) = before.size * before.size THEN ret = 0
        ELSE NegInf < ret /\ ret < PosInf

\* _evaluate_board has returned -infinity for a board that BLACK has won.
C7_Witness ==
    op = "_evaluate_board" /\ WonBy(before, BLACK) /\ ret = NegInf

\* C8: no two stones of the board share a coordinate, in every state
\* reached by place_stone, remove_stone and get_move calls from the empty
\* board.
C8_OneStonePerCell ==
    \A i, j \in 1..Len(board.stones) :
        i # j => ~(board.stones[i].x = board.stones[j].x
                   /\ board.stones[i].y = board.stones[j].y)

\* place_stone has been refused on a cell that holds a stone.
C8_Witness ==
    /\ op = "place_stone" /\ ret = FALSE
    /\ Occupied(board, args.x, args.y)
    /\ Len(board.stones) = MaxStones

\* C9: last_move is absent or is the stone placed most recently among the
\* stones still on the board (the last of the list, which is in the order
\* of placement); this holds between the calls made inside the search too.
C9_LastMove ==
    \/ board.last_move = None
    \/ /\ board.stones # <<>>
       /\ board.last_move = board.stones[Len(board.stones)]

\* Inside a search a trial stone has been removed, and last_move is absent
\* on a board that holds stones.
C9_Witness ==
    stack # <<>> /\ board.stones # <<>> /\ board.last_move = None

\* C10: the cells that _get_valid_moves returns are exactly the empty cells
\* of the board with a stone at Chebyshev distance 1 or 2; no cell is
\* returned twice; and none is returned exactly when the board is empty or
\* full.
C10_ValidMoves ==
    op = "_get_valid_moves" =>
        /\ {ret[i] : i \in 1..Len(ret)} = NearCells(before)
        /\ \A i, j \in 1..Len(ret) : i # j => ret[i] # ret[j]
        /\ ret = <<>> <=> (\/ before.stones = <<>>
                           \/ Len(before.stones) = before.size * before.size)

\* _get_valid_moves has left out an empty cell that is three or more cells
\* away from every stone.
C10_Witness ==
    /\ op = "_get_valid_moves" /\ ret # <<>>
    /\ \E c \in (0..(before.size - 1)) \X (0..(before.size - 1)) :
        /\ ~Occupied(before, c[1], c[2])
        /\ c \notin {ret[i] : i \in 1..Len(ret)}

\* The single-move score of candidate m of frame f for the side that the
\* loop of f moves: WHITE in get_move and at a maximizing node, BLACK at a
\* minimizing node.
MoverScore(f, m) ==
    _evaluate_position(f.difficulty, m[1], m[2], f.entry, trial_color(f))

\* C11: at every node of the search the candidate list is in descending
\* order of the single-move score computed for the side about to move at
\* that node.
C11_OrderedForMover ==
    stack # <<>> /\ ~stack[Len(stack)].leaf =>
        \A i \in 1..(Len(stack[Len(stack)].valid_moves) - 1) :
            MoverScore(stack[Len(stack)], stack[Len(stack)].valid_moves[i])
              >= MoverScore(stack[Len(stack)], stack[Len(stack)].valid_moves[i + 1])

\* The number of steps from (x, y) in direction (dx, dy) to the first cell
\* that does not hold a stone of the colour; the cell may be off the board.
RECURSIVE StopStep(_, _, _, _, _, _, _)
StopStep(b, x, y, dx, dy, color, i) ==
    IF InBounds(b, x + i * dx, y + i * dy) /\ Holds(b, x + i * dx, y + i * dy, color)
    THEN StopStep(b, x, y, dx, dy, color, i + 1)
    ELSE i

\* 1 when the cell just past the run from (x, y) in direction (dx, dy) is on
\* the board and empty, else 0.
OpenEnd(b, x, y, dx, dy, color) ==
    LET i == StopStep(b, x, y, dx, dy, color, 1)
    IN  IF /\ InBounds(b, x + i * dx, y + i * dy)
           /\ ~Occupied(b, x + i * dx, y + i * dy)
        THEN 1 ELSE 0

\* The open ends of the run through (x, y) on axis d.
OpenEnds(b, x, y, d, color) ==
    OpenEnd(b, x, y, directions[d][1], directions[d][2], color)
    + OpenEnd(b, x, y, -directions[d][1], -directions[d][2], color)

\* The length of the run of the colour through (x, y) on axis d, the cell
\* (x, y) counted as one of the colour.
RunLength(b, x, y, d, color) ==
    StopStep(b, x, y, directions[d][1], directions[d][2], color, 1)
    + StopStep(b, x, y, -directions[d][1], -directions[d][2], color, 1) - 1

\* A call of _evaluate_position has returned.
Evaluated == op = "_evaluate_position"

\* What the walk from (x, y) in direction (dx, dy) should add to open_ends:
\* 1 when it stops, within its four steps, at a cell that is on the board and
\* empty, else 0.
WalkOpenEnd(b, x, y, dx, dy, color) ==
    IF StopStep(b, x, y, dx, dy, color, 1) <= WalkLen
    THEN OpenEnd(b, x, y, dx, dy, color) ELSE 0

\* C12: on every axis, open_ends of _evaluate_position is the number of
\* directions in which the walk stops at a cell that is on the board and
\* empty: a walk that stops at a stone of the other colour or at the edge of
\* the board adds nothing to open_ends.
C12_OpenEndsInBounds ==
    Evaluated =>
        \A d \in 1..4 :
            ret.axes[d].open_ends =
                WalkOpenEnd(board, args.x, args.y,
                            directions[d][1], directions[d][2], args.color)
              + WalkOpenEnd(board, args.x, args.y,
                            -directions[d][1], -directions[d][2], args.color)

\* The walks of four steps from (x, y) in the eight directions stay on board b.
Interior(b, x, y) ==
    /\ WalkLen <= x /\ x + WalkLen < b.size
    /\ WalkLen <= y /\ y + WalkLen < b.size

\* The score of a run of length n with e open ends under the weights of the
\* difficulty.
RunScore(difficulty, n, e) ==
    IF n >= 5 THEN weights(difficulty).w5
    ELSE IF n \in 2..4 /\ e \in 1..2
         THEN e * (CASE n = 4 -> weights(difficulty).w4
                     [] n = 3 -> weights(difficulty).w3
                     [] n = 2 -> weights(difficulty).w2)
         ELSE 0

\* C16: at a cell whose walks of four steps stay on the board,
\* _evaluate_position returns the sum over the four axes of the score of the
\* run through the cell: weight 5 for a run of 5 or more; the weight of its
\* length, doubled with two open ends, for a run of 2 to 4 with an open end;
\* 0 otherwise.
C16_PatternSum ==
    Evaluated /\ Interior(board, args.x, args.y) =>
        ret.score =
            RunScore(args.difficulty, RunLength(board, args.x, args.y, 1, args.color),
                     OpenEnds(board, args.x, args.y, 1, args.color))
          + RunScore(args.difficulty, RunLength(board, args.x, args.y, 2, args.color),
                     OpenEnds(board, args.x, args.y, 2, args.color))
          + RunScore(args.difficulty, RunLength(board, args.x, args.y, 3, args.color),
                     OpenEnds(board, args.x, args.y, 3, args.color))
          + RunScore(args.difficulty, RunLength(board, args.x, args.y, 4, args.color),
                     OpenEnds(board, args.x, args.y, 4, args.color))

\* A call at an interior cell found, on one axis, a run of four with one
\* open end and a stone of the other colour at the other end.
C16_Witness ==
    /\ Evaluated
    /\ Interior(board, args.x, args.y)
    /\ \E d \in 1..4 :
        /\ ret.axes[d] = [count |-> 4, open_ends |-> 1, blocks |-> 1]
        /\ ret.score = weights(args.difficulty).w4

\* Cell (x, y) is on board b and holds no stone.
EmptyCell(b, x, y) == InBounds(b, x, y) /\ ~Occupied(b, x, y)

\* The end cells of the open runs of n stones of the colour on board b: n
\* cells in a row on an axis hold the colour and the cells just before and
\* just after them are on the board and empty.
OpenRunEnds(b, color, n) ==
    {e \in (0..(b.size - 1)) \X (0..(b.size - 1)) :
        \E x \in 0..(b.size - 1), y \in 0..(b.size - 1),
           d \in {<<1, 0>>, <<0, 1>>, <<1, 1>>, <<1, -1>>} :
            /\ \A j \in 0..(n - 1) : Holds(b, x + j * d[1], y + j * d[2], color)
            /\ EmptyCell(b, x - d[1], y - d[2])
            /\ EmptyCell(b, x + n * d[1], y + n * d[2])
            /\ e \in {<<x - d[1], y - d[2]>>, <<x + n * d[1], y + n * d[2]>>}}

\* The empty cells of board b on which a stone of the colour makes five in a
\* row.
WinningCells(b, color) ==
    {c \in (0..(b.size - 1)) \X (0..(b.size - 1)) :
        /\ ~Occupied(b, c[1], c[2])
        /\ FiveThrough([b EXCEPT !.stones = Append(@, Stone(c[1], c[2], color))],
                       Stone(c[1], c[2], color))}

\* get_move was called on a board with an open three of WHITE, an open four
\* of BLACK and no cell that wins for WHITE at once.
FourAgainstThree ==
    /\ OpenRunEnds(before, WHITE, 3) # {}
    /\ OpenRunEnds(before, BLACK, 4) # {}
    /\ WinningCells(before, WHITE) = {}

\* C13: on a board with an open three of WHITE and an open four of BLACK,
\* where no cell wins for WHITE at once, get_move returns one of the end
\* cells of BLACK's four, at every difficulty.
C13_BlocksOpenFour ==
    Returned /\ FourAgainstThree =>
        ret \in OpenRunEnds(before, BLACK, 4)

\* get_move has returned from a call on such a board.
C13_Called == Returned /\ FourAgainstThree

\* A call of _alpha_beta from outside get_move has returned.
SearchReturned == op = "_alpha_beta" /\ stack = <<>>

\* C14 as stated: on a board where the game is not over, _alpha_beta with
\* depth >= 1, the full window and WHITE to move returns at least
\* _evaluate_board of the same board.
C14_NotBelowStatic ==
    SearchReturned /\ ~is_game_over(before) =>
        ret >= _evaluate_board(args.difficulty, before)

\* _evaluate_board of the boards that add a WHITE stone to board b on one of
\* its candidate cells.
OnePlyValues(difficulty, b) ==
    {_evaluate_board(difficulty, place_stone(b, c[1], c[2], WHITE).board) :
        c \in NearCells(b)}

\* C14, amended: on a board where the game is not over, _alpha_beta with
\* depth 1, the full window and WHITE to move returns the greatest
\* _evaluate_board among the boards with one more WHITE stone on a candidate
\* cell, and with any depth >= 1 it returns -inf on a board without a
\* candidate cell.
C14_OnePlyMaximum ==
    SearchReturned /\ ~is_game_over(before) =>
        /\ NearCells(before) = {} => ret = NegInf
        /\ args.depth = 1 /\ NearCells(before) # {} =>
            /\ ret \in OnePlyValues(args.difficulty, before)
            /\ \A v \in OnePlyValues(args.difficulty, before) : ret >= v

\* A call with depth 1 on a board with candidate cells has returned a value
\* below _evaluate_board of the board.
C14_Witness ==
    /\ SearchReturned
    /\ ~is_game_over(before)
    /\ args.depth = 1
    /\ Cardinality(NearCells(before)) >= 2
    /\ ret < _evaluate_board(args.difficulty, before)

\* The stone that the iteration in progress of frame f has placed.
TrialStone(f) ==
    Stone(f.valid_moves[f.i][1], f.valid_moves[f.i][2], trial_color(f))

\* C15: while get_move runs, every call of the search has the stone sequence
\* of its entry whenever it is not inside a recursive call, and so when it
\* returns, by the pruning break or at the end of its loop; every trial
\* place_stone has appended its stone to the sequence; the stones that were
\* on the board before get_move are still its first stones, and they are the
\* whole sequence once get_move has returned.
C15_SearchRestoresStones ==
    /\ stack # <<>> =>
        /\ board.stones = stack[Len(stack)].entry.stones
        /\ \A k \in 1..(Len(stack) - 1) :
              stack[k + 1].entry.stones
                = Append(stack[k].entry.stones, TrialStone(stack[k]))
        /\ SubSeq(board.stones, 1, Len(before.stones)) = before.stones
    /\ Returned => board.stones = before.stones

\* A call of _alpha_beta two plies below get_move returns by the pruning
\* break, the two trial stones above it on the board.
C15_Witness ==
    /\ Len(stack) >= 3
    /\ stack[Len(stack)].done
    /\ Len(board.stones) = Len(before.stones) + 2
    /\ board.stones = stack[Len(stack)].entry.stones

\* A call of update on the AI's turn has returned.
Updated == op = "update" /\ stack = <<>>

\* C17: in Player vs AI mode the stone of the human is followed by a WHITE
\* stone of the AI: a call of update on the AI's turn adds a WHITE stone to
\* the board and leaves the state GAME_OVER or the turn with the human, so
\* that the game does not stay in PLAYING with the AI to move and no stone
\* added.
C17_AIReplies ==
    Updated =>
        /\ Len(board.stones) = Len(before.stones) + 1
        /\ board.stones[Len(board.stones)].color = WHITE
        /\ game.state = GAME_OVER \/ game.current_player = HUMAN

\* C20: in both game modes the stones of the game board, in the order in
\* which they were placed, alternate in colour and start with BLACK.
C20_ColoursAlternate ==
    stack = <<>> =>
        \A i \in 1..Len(board.stones) :
            board.stones[i].color = IF i % 2 = 1 THEN BLACK ELSE WHITE

\* C18: when a stone of WHITE on some empty cell of the board makes five in
\* a row, get_move returns such a cell, at every difficulty and whatever
\* BLACK threatens.
C18_TakesWin ==
    Returned /\ WinningCells(before, WHITE) # {} =>
        ret \in WinningCells(before, WHITE)

\* get_move has returned a winning cell on a board where BLACK, too, had a
\* cell that makes five in a row, and where not every candidate wins.
C18_Witness ==
    /\ Returned
    /\ ret \in WinningCells(before, WHITE)
    /\ WinningCells(before, BLACK) # {}
    /\ NearCells(before) \ WinningCells(before, WHITE) # {}

\* The search without pruning that followed a call of get_move has returned.
Compared == op = "minimax" /\ stack = <<>>

\* C19: the move that get_move returns is the move that the same search
\* returns without the pruning break.
C19_PruningKeepsMove == Compared => ret.pruned = ret.plain

\* The two searches have returned the same move, a candidate cell of a
\* board with three candidate cells or more.
C19_Witness ==
    /\ Compared
    /\ ret.pruned = ret.plain
    /\ ret.plain \in NearCells(before)
    /\ Cardinality(NearCells(before)) >= 3

====
